---- MODULE Spec2Model ----
(***************************************************************************)
(* Model of src/app/api/submit-waitlist/route.js: the lead-submission      *)
(* handler POST and the e-mail verification handler GET, with their        *)
(* collaborators (spreadsheet API, token verifier, tenant user store,      *)
(* session signer, cookie store) as nondeterministic outcomes.             *)
(***************************************************************************)
EXTENDS Integers, Sequences, FiniteSets, TLC

\* ------------------------------------------------------------------ bounds
\* Verification requests that arrive in one behaviour.
MaxReqs == 3
\* Verification requests that may be in flight at the same time.
MaxInFlight == 2
\* Lead submissions that arrive in one behaviour.
MaxPosts == 2

\* ------------------------------------------------------------- JS values
\* The values `null` and `undefined`; both, and the empty string, are falsy.
NULL == "null"
UNDEF == "undefined"
Falsy(v) == v \in {NULL, UNDEF, ""}

Tenants == {"acme", "other"}
Emails == {"a@x.com", "b@x.com"}

\* const EXTERNAL_APP_URL = 'https://app.liveplus.pro'
EXTERNAL_APP_URL == "https://app.liveplus.pro"
\* process.env.NEXT_PUBLIC_APP_URL: configured, or not set at all.
BaseUrls == {"https://liveplus.pro", UNDEF}

\* ----------------------------------------------------------- e-mail token
\* searchParams.get('token'): null, the empty string, or a JWT with a
\* signature, an expiry and a payload {email, tenant}.
\* if (!token)
TokenMissing(token) == Falsy(token.raw)

NoJwt(raw) ==
    [raw |-> raw, sig |-> "bad", exp |-> "expired", email |-> UNDEF, tenant |-> UNDEF]

Jwt(sig, exp, email, tenant) ==
    [raw |-> "jwt", sig |-> sig, exp |-> exp, email |-> email, tenant |-> tenant]

InvalidTokens ==
    {NoJwt("null"), NoJwt("")}
    \cup {Jwt("bad", "live", "a@x.com", t) : t \in Tenants \cup {UNDEF}}
    \cup {Jwt("good", "expired", "a@x.com", t) : t \in Tenants \cup {UNDEF}}

ValidTokens == {Jwt("good", "live", e, t) : e \in Emails, t \in Tenants \cup {UNDEF}}

Tokens == InvalidTokens \cup ValidTokens

\* searchParams.get('tenant')
TenantParams == {NULL, ""} \cup Tenants

\* jwt.verify(token, EMAIL_SECRET) returns the payload iff the signature is
\* good and the token has not expired; otherwise it throws.
JwtVerifies(token) == token.raw = "jwt" /\ token.sig = "good" /\ token.exp = "live"

\* -------------------------------------------------------------- responses
NoResponse == [kind |-> "none", origin |-> "-", tenant |-> "-", error |-> "-"]
Thrown == [kind |-> "throw", origin |-> "-", tenant |-> "-", error |-> "-"]

\* `${baseUrl}/?error=<code>`
BaseErrorUrl(base, code) == [origin |-> base, tenant |-> "-", error |-> code]
\* `${EXTERNAL_APP_URL}/${tenant}/financeiro` with an optional `/?error=<code>`
TenantUrl(tenant, code) == [origin |-> EXTERNAL_APP_URL, tenant |-> tenant, error |-> code]

\* new URL(s) with no base throws TypeError unless s is an absolute URL:
\* "undefined/?error=..." is not.
ValidURL(url) == ~Falsy(url.origin)

RedirectTo(url) ==
    [kind |-> "redirect", origin |-> url.origin, tenant |-> url.tenant, error |-> url.error]

\* The outer catch of GET: redirect to `${NEXT_PUBLIC_APP_URL}/?error=server-error`;
\* when new URL throws there, the exception leaves the handler.
OuterCatch(base) ==
    IF ValidURL(BaseErrorUrl(base, "server-error"))
    THEN RedirectTo(BaseErrorUrl(base, "server-error"))
    ELSE Thrown

\* return NextResponse.redirect(new URL(url)) inside the outer try.
Redirect(url, base) == IF ValidURL(url) THEN RedirectTo(url) ELSE OuterCatch(base)

\* ------------------------------------------------------------- user store
NoUser ==
    [id |-> 0, email |-> UNDEF, tenantPath |-> UNDEF, role |-> UNDEF,
     createdAt |-> 0, lastLoginAt |-> 0]

UserDoc(id, rec) ==
    [id |-> id, email |-> rec.email, tenantPath |-> rec.tenantPath, role |-> rec.role,
     createdAt |-> rec.createdAt, lastLoginAt |-> rec.lastLoginAt]

UserRec(email, tenantPath, role, createdAt, lastLoginAt) ==
    [email |-> email, tenantPath |-> tenantPath, role |-> role,
     createdAt |-> createdAt, lastLoginAt |-> lastLoginAt]

\* Records with this e-mail in a tenant's collection.
Matching(coll, email) == {i \in 1..Len(coll) : coll[i].email = email}

CountFor(coll, email) == Cardinality(Matching(coll, email))

\* Mutant: the lookup never finds the user.
FindOneMisses(coll, email) == NoUser

\* User.findOne({email}): the first matching document, or null.
FindOne(coll, email) ==
    IF Matching(coll, email) = {}
    THEN NoUser
    ELSE LET i == CHOOSE i \in Matching(coll, email) :
                    \A j \in Matching(coll, email) : i <= j
         IN UserDoc(i, coll[i])

\* The schema's pre-save hook: the first user of a tenant becomes the owner.
PreSaveRole(coll) == IF Len(coll) = 0 THEN "owner" ELSE "user"

\* Collections a tenant database may hold before any request of the run.
InitialCollections(t) ==
    {<<>>}
    \cup {<<UserRec("a@x.com", p, "user", 0, 0)>> : p \in Tenants \cup {UNDEF}}
    \cup {<<UserRec("b@x.com", t, "owner", 0, 0)>>}

NoCookie == [email |-> UNDEF, userId |-> 0, tenantPath |-> UNDEF, role |-> UNDEF]
NoCalls == [connectDB |-> 0, findOne |-> 0, save |-> 0, create |-> 0]

IdleReq ==
    [pc |-> "idle", token |-> NoJwt("null"), param |-> NULL, tenant |-> NULL,
     user |-> NoUser, response |-> NoResponse, cookie |-> NoCookie, calls |-> NoCalls]

Slots == 1..MaxInFlight

VARIABLES
    baseUrl,    \* process.env.NEXT_PUBLIC_APP_URL
    now,        \* the clock new Date() reads; it advances when a request arrives
    users,      \* users[t]: the User collection of tenant t's database
    req,        \* req[s]: the verification request handled in slot s
    env,        \* POST: which of the three GOOGLE_SHEETS_* variables are set
    sheet,      \* POST: the rows of the spreadsheet
    post,       \* POST: the lead submission being handled
    posts       \* POST: submissions that have arrived

gvars == <<baseUrl, now, users, req>>
pvars == <<env, sheet, post, posts>>
vars == <<baseUrl, now, users, req, env, sheet, post, posts>>

\* ------------------------------------------------------------ GET handler
\* if (!tenant && decoded.tenant) tenant = decoded.tenant
ResolveTenant(param, decoded) ==
    IF Falsy(param) /\ ~Falsy(decoded.tenant) THEN decoded.tenant ELSE param

\* Mutant: the tenant check is skipped.
TenantMatchesSkipped(tenant, decoded) == TRUE

\* if (tenant !== decoded.tenant) -> invalid-tenant
TenantMatches(tenant, decoded) == tenant = decoded.tenant

\* The synchronous checks of GET up to the database connection: the
\* response they end the request with, or NoResponse to go on.
Validate(token, param, base) ==
    IF TokenMissing(token)
    THEN Redirect(BaseErrorUrl(base, "invalid-token"), base)
    ELSE IF ~JwtVerifies(token)
    THEN Redirect(BaseErrorUrl(base, "invalid-token"), base)
    ELSE IF Falsy(ResolveTenant(param, token))
    THEN Redirect(BaseErrorUrl(base, "invalid-tenant"), base)
    ELSE IF ~TenantMatches(ResolveTenant(param, token), token)
    THEN Redirect(BaseErrorUrl(base, "invalid-tenant"), base)
    ELSE NoResponse

\* The handler returns: its locals go out of scope.
Finish(r, response) ==
    [r EXCEPT !.pc = "done", !.response = response, !.tenant = NULL, !.user = NoUser]

Called(r, op) == [r EXCEPT !.calls[op] = @ + 1]

\* A request arrives in slot s, the lowest free one, and runs up to its
\* first await.
GetValidate(s, limit, tokens, params) ==
    /\ s <= limit
    /\ req[s].pc = "idle"
    /\ \A q \in Slots : q < s => req[q].pc # "idle"
    /\ now < MaxReqs
    /\ now' = now + 1
    /\ \E token \in tokens, param \in params :
         LET r == [req[s] EXCEPT !.token = token, !.param = param]
             response == Validate(token, param, baseUrl)
         IN req' = [req EXCEPT ![s] =
                IF response # NoResponse
                THEN Finish(r, response)
                ELSE [r EXCEPT !.pc = "connect",
                               !.tenant = ResolveTenant(param, token)]]
    /\ UNCHANGED <<baseUrl, users, pvars>>

\* tenantConnection = await connectDB(tenant); User = getTenantModel(...)
GetConnect(s) ==
    /\ req[s].pc = "connect"
    /\ LET r == Called(req[s], "connectDB")
       IN \E connected \in BOOLEAN, modelled \in BOOLEAN :
            req' = [req EXCEPT ![s] =
                IF ~connected
                THEN Finish(r, Redirect(TenantUrl(r.tenant, "database-error"), baseUrl))
                ELSE IF ~modelled
                THEN Finish(r, OuterCatch(baseUrl))
                ELSE [r EXCEPT !.pc = "find"]]
    /\ UNCHANGED <<baseUrl, now, users, pvars>>

UserError(r) == Finish(r, Redirect(TenantUrl(r.tenant, "user-error"), baseUrl))

\* user = await User.findOne({ email: decoded.email })
GetFindOne(s) ==
    /\ req[s].pc = "find"
    /\ LET r == Called(req[s], "findOne")
       IN \E found \in BOOLEAN :
            req' = [req EXCEPT ![s] =
                IF ~found
                THEN UserError(r)
                ELSE [r EXCEPT !.pc = "branch",
                               !.user = FindOne(users[r.tenant], r.token.email)]]
    /\ UNCHANGED <<baseUrl, now, users, pvars>>

\* if (user && !user.tenantPath) { user.tenantPath = tenant; await user.save() }
GetSaveTenantPath(s) ==
    /\ req[s].pc = "branch"
    /\ req[s].user.id # 0
    /\ Falsy(req[s].user.tenantPath)
    /\ LET r == Called(req[s], "save")
           t == r.tenant
       IN \E saved \in BOOLEAN :
            IF ~saved
            THEN /\ req' = [req EXCEPT ![s] = UserError(r)]
                 /\ UNCHANGED users
            ELSE /\ req' = [req EXCEPT ![s] =
                        [r EXCEPT !.pc = "login", !.user.tenantPath = t]]
                 /\ users' = [users EXCEPT ![t][r.user.id].tenantPath = t]
    /\ UNCHANGED <<baseUrl, now, pvars>>

\* The document new User({email, tenantPath: tenant, createdAt, lastLoginAt})
\* becomes in the collection once saved.
NewUser(coll, email, tenant, date) ==
    UserRec(email, tenant, PreSaveRole(coll), date, date)

\* Mutant: the save is an upsert on the e-mail; a second create adopts the
\* record that is there.
GetCreateUserUpsert(s) ==
    /\ req[s].pc = "branch"
    /\ req[s].user.id = 0
    /\ LET r == Called(Called(req[s], "save"), "create")
           t == r.tenant
           rec == NewUser(users[t], r.token.email, t, now)
       IN IF Matching(users[t], r.token.email) # {}
          THEN /\ req' = [req EXCEPT ![s] =
                      [r EXCEPT !.pc = "login",
                                !.user = FindOne(users[t], r.token.email)]]
               /\ UNCHANGED users
          ELSE /\ users' = [users EXCEPT ![t] = Append(@, rec)]
               /\ req' = [req EXCEPT ![s] =
                      [r EXCEPT !.pc = "login",
                                !.user = UserDoc(Len(users[t]) + 1, rec)]]
    /\ UNCHANGED <<baseUrl, now, pvars>>

\* else if (!user) { user = new User({...}); await user.save() }
GetCreateUser(s) ==
    /\ req[s].pc = "branch"
    /\ req[s].user.id = 0
    /\ LET r == Called(Called(req[s], "save"), "create")
           t == r.tenant
           rec == NewUser(users[t], r.token.email, t, now)
       IN \E saved \in BOOLEAN :
            IF ~saved
            THEN /\ req' = [req EXCEPT ![s] = UserError(r)]
                 /\ UNCHANGED users
            ELSE /\ users' = [users EXCEPT ![t] = Append(@, rec)]
                 /\ req' = [req EXCEPT ![s] =
                        [r EXCEPT !.pc = "login",
                                  !.user = UserDoc(Len(users[t]) + 1, rec)]]
    /\ UNCHANGED <<baseUrl, now, pvars>>

\* The user GET goes on with after the find-or-create branch.
ReadyToLogin(r) ==
    \/ r.pc = "login"
    \/ r.pc = "branch" /\ r.user.id # 0 /\ ~Falsy(r.user.tenantPath)

\* user.lastLoginAt = new Date(); await user.save()
GetUpdateLogin(s) ==
    /\ ReadyToLogin(req[s])
    /\ LET r == Called(req[s], "save")
           t == r.tenant
       IN \E saved \in BOOLEAN :
            IF ~saved
            THEN /\ req' = [req EXCEPT ![s] = UserError(r)]
                 /\ UNCHANGED users
            ELSE /\ users' = [users EXCEPT ![t][r.user.id].lastLoginAt = now]
                 /\ req' = [req EXCEPT ![s] =
                        [r EXCEPT !.pc = "session", !.user.lastLoginAt = now]]
    /\ UNCHANGED <<baseUrl, now, pvars>>

\* The payload given to new SignJWT({...}).
SessionPayload(token, user) ==
    [email |-> token.email, userId |-> user.id,
     tenantPath |-> user.tenantPath, role |-> user.role]

\* Sign the session token, set the auth_token cookie, redirect to the
\* tenant's page; any throw there redirects to session-error.
GetSession(s) ==
    /\ req[s].pc = "session"
    /\ LET r == req[s]
       IN \E step \in {"sign", "cookies", "set", "none"} :
            req' = [req EXCEPT ![s] =
                IF step # "none"
                THEN Finish(r, Redirect(TenantUrl(r.tenant, "session-error"), baseUrl))
                ELSE Finish([r EXCEPT !.cookie = SessionPayload(r.token, r.user)],
                            Redirect(TenantUrl(r.tenant, "none"), baseUrl))]
    /\ UNCHANGED <<baseUrl, now, users, pvars>>

\* The response has been sent; the slot takes the next request.
GetReturn(s) ==
    /\ req[s].pc = "done"
    /\ req' = [req EXCEPT ![s] = IdleReq]
    /\ UNCHANGED <<baseUrl, now, users, pvars>>

GetStep(s) ==
    \/ GetConnect(s)
    \/ GetFindOne(s)
    \/ GetSaveTenantPath(s)
    \/ GetCreateUser(s)
    \/ GetUpdateLogin(s)
    \/ GetSession(s)
    \/ GetReturn(s)

\* ----------------------------------------------------------- POST handler
EnvNames == {"GOOGLE_SHEETS_ID", "GOOGLE_SHEETS_CLIENT_EMAIL", "GOOGLE_SHEETS_PRIVATE_KEY"}

\* Mutant: only the spreadsheet id is checked.
EnvMissingIdOnly(e) == Falsy(e["GOOGLE_SHEETS_ID"])

\* if (!process.env.GOOGLE_SHEETS_ID || !...CLIENT_EMAIL || !...PRIVATE_KEY)
EnvMissing(e) == \E n \in EnvNames : Falsy(e[n])

\* The bodies request.json() may yield; the handler validates no field.
Bodies ==
    {[name |-> "Ana", email |-> "a@x.com", phone |-> "111", plan |-> "pro"],
     [name |-> "Bo", email |-> "b@x.com", phone |-> UNDEF, plan |-> "basic"]}

NoBody == [name |-> UNDEF, email |-> UNDEF, phone |-> UNDEF, plan |-> UNDEF]

\* What new Date() may read: getDate(), getMonth() (from 0) and getFullYear().
Dates ==
    {[date |-> 1, month |-> 0, fullYear |-> 2026],
     [date |-> 9, month |-> 8, fullYear |-> 2025],
     [date |-> 10, month |-> 9, fullYear |-> 2026],
     [date |-> 28, month |-> 1, fullYear |-> 2024],
     [date |-> 31, month |-> 11, fullYear |-> 2025]}

NoDate == [date |-> 0, month |-> 0, fullYear |-> 0]

Digit(n) == <<"0", "1", "2", "3", "4", "5", "6", "7", "8", "9">>[n + 1]

\* String(n) for a natural number, as its sequence of characters.
RECURSIVE String(_)
String(n) == IF n < 10 THEN <<Digit(n)>> ELSE String(n \div 10) \o <<Digit(n % 10)>>

\* str.padStart(len, ch)
RECURSIVE PadStart(_, _, _)
PadStart(str, len, ch) == IF Len(str) >= len THEN str ELSE PadStart(<<ch>> \o str, len, ch)

\* Mutant: getMonth() is used as it is, from 0.
FormatDateMonthFromZero(d) ==
    PadStart(String(d.date), 2, "0") \o <<"/">>
    \o PadStart(String(d.month), 2, "0") \o <<"/">>
    \o String(d.fullYear)

\* `${String(getDate()).padStart(2,'0')}/${String(getMonth()+1).padStart(2,'0')}/${getFullYear()}`
FormatDate(d) ==
    PadStart(String(d.date), 2, "0") \o <<"/">>
    \o PadStart(String(d.month + 1), 2, "0") \o <<"/">>
    \o String(d.fullYear)

\* requestBody.values of the append call.
RowOf(body, formattedDate) ==
    <<body.name, body.email, body.phone, body.plan, formattedDate>>

\* Errors the handler may catch: the one it throws itself, a body that is
\* not JSON, and what values.append may reject with.
ConfigError == [name |-> "Error", message |-> "Missing required environment variables"]
JsonError == [name |-> "SyntaxError", message |-> "Unexpected end of JSON input"]
AppendErrors ==
    {[name |-> "GaxiosError", message |-> "Quota exceeded"],
     [name |-> "Error", message |-> "socket hang up"]}

JsonResponse(status, message, error, type) ==
    [status |-> status, message |-> message, error |-> error, type |-> type]

NoJson == JsonResponse(0, UNDEF, UNDEF, UNDEF)

\* The outer catch of POST.
InternalError(e) == JsonResponse(500, "Internal server error", e.message, e.name)

\* Mutant: the failed access falls through to the outer catch.
AccessErrorAs500 ==
    JsonResponse(500, "Internal server error", "The caller does not have permission",
                 "GaxiosError")

\* The catch around spreadsheets.get.
AccessError ==
    JsonResponse(403,
        "Failed to access spreadsheet. Please verify permissions and spreadsheet ID.",
        UNDEF, UNDEF)

Success == JsonResponse(200, "Success", UNDEF, UNDEF)

PostIdle ==
    [pc |-> "idle", body |-> NoBody, date |-> NoDate, rows0 |-> 0,
     gets |-> 0, appends |-> 0, response |-> NoJson]

PostFinish(p, response) == [p EXCEPT !.pc = "done", !.response = response]

\* The request body is parsed and the configuration checked.
PostStart ==
    /\ post.pc = "idle"
    /\ posts < MaxPosts
    /\ posts' = posts + 1
    /\ \E parsed \in BOOLEAN, body \in Bodies :
         LET p == [post EXCEPT !.rows0 = Len(sheet)]
         IN post' =
              IF ~parsed
              THEN PostFinish(p, InternalError(JsonError))
              ELSE IF EnvMissing(env)
              THEN PostFinish([p EXCEPT !.body = body], InternalError(ConfigError))
              ELSE [p EXCEPT !.pc = "get", !.body = body]
    /\ UNCHANGED <<env, sheet, gvars>>

\* await sheets.spreadsheets.get(...); then the date is read and formatted.
PostAccess ==
    /\ post.pc = "get"
    /\ LET p == [post EXCEPT !.gets = @ + 1]
       IN \E reached \in BOOLEAN, d \in Dates :
            post' =
              IF ~reached
              THEN PostFinish(p, AccessError)
              ELSE [p EXCEPT !.pc = "append", !.date = d]
    /\ UNCHANGED <<env, sheet, posts, gvars>>

\* await sheets.spreadsheets.values.append(...) and the 200 response.
PostAppend ==
    /\ post.pc = "append"
    /\ LET p == [post EXCEPT !.appends = @ + 1]
       IN \/ /\ sheet' = Append(sheet, RowOf(p.body, FormatDate(p.date)))
             /\ post' = PostFinish(p, Success)
          \/ /\ \E e \in AppendErrors : post' = PostFinish(p, InternalError(e))
             /\ UNCHANGED sheet
    /\ UNCHANGED <<env, posts, gvars>>

\* The response has been sent.
PostReturn ==
    /\ post.pc = "done"
    /\ post' = PostIdle
    /\ UNCHANGED <<env, sheet, posts, gvars>>

AllSet == [n \in EnvNames |-> "set"]

InitGet ==
    /\ baseUrl \in BaseUrls
    /\ now = 0
    /\ users \in [Tenants -> UNION {InitialCollections(t) : t \in Tenants}]
    /\ \A t \in Tenants : users[t] \in InitialCollections(t)
    /\ req = [s \in Slots |-> IdleReq]

InitPost ==
    /\ env \in [EnvNames -> {"set", UNDEF, ""}]
    /\ sheet = <<>>
    /\ post = PostIdle
    /\ posts = 0

Init ==
    /\ InitGet
    /\ InitPost
    /\ env = AllSet

\* Verification requests, one at a time, with any token and tenant parameter.
Next ==
    \E s \in Slots :
        \/ GetValidate(s, 1, Tokens, TenantParams)
        \/ GetStep(s)

Spec == Init /\ [][Next]_vars

\* Verification requests in flight together, each carrying a valid token.
RaceTokens == {Jwt("good", "live", "a@x.com", "acme")}
RaceParams == {"acme"}

NextRace ==
    \E s \in Slots :
        \/ GetValidate(s, MaxInFlight, RaceTokens, RaceParams)
        \/ GetStep(s)

\* The race is over one tenant's collection, empty or holding another user.
InitRace ==
    /\ Init
    /\ users["acme"] \in {<<>>, <<UserRec("b@x.com", "acme", "owner", 0, 0)>>,
                         <<UserRec("a@x.com", UNDEF, "user", 0, 0)>>}
    /\ users["other"] = <<>>

SpecRace == InitRace /\ [][NextRace]_vars

\* Lead submissions, under every configuration of the environment.
InitLead ==
    /\ InitGet
    /\ InitPost
    /\ baseUrl # UNDEF
    /\ \A t \in Tenants : users[t] = <<>>

NextLead ==
    \/ PostStart
    \/ PostAccess
    \/ PostAppend
    \/ PostReturn

SpecLead == InitLead /\ [][NextLead]_vars

\* ================================================================= claims
Done(r) == r.pc = "done"
Succeeded(r) == Done(r) /\ r.response.kind = "redirect" /\ r.response.error = "none"
StoreCalls(r) == r.calls.findOne + r.calls.save + r.calls.create

\* The token's signature is good and it has not expired.
TokenGood(token) == token.raw = "jwt" /\ token.sig = "good" /\ token.exp = "live"
\* The tenant parameter is absent (the token's tenant is adopted) or names
\* the token's tenant, and the token names a tenant.
TenantGood(token, param) ==
    /\ token.tenant \in Tenants
    /\ param \in {NULL, "", token.tenant}

BaseRedirect(response, code) ==
    /\ response.kind = "redirect"
    /\ response.origin = baseUrl
    /\ response.origin # UNDEF
    /\ response.error = code

\* C1: the auth_token cookie is set, and the user store is used (findOne,
\* create, save), only for a request whose token verified and whose resolved
\* tenant is the token's tenant.
C1_SessionOnlyAfterVerification ==
    \A s \in Slots :
        (req[s].cookie # NoCookie \/ StoreCalls(req[s]) > 0)
            => TokenGood(req[s].token) /\ TenantGood(req[s].token, req[s].param)

C1_Witness ==
    \E s \in Slots :
        /\ Succeeded(req[s])
        /\ req[s].cookie # NoCookie
        /\ req[s].calls.create = 1

\* C2: a valid token with a non-empty tenant parameter that differs from the
\* token's tenant ends in a redirect to the base-URL page with
\* error=invalid-tenant, without connectDB, a user lookup or a cookie.
C2_MismatchRedirectsInvalidTenant ==
    \A s \in Slots :
        (/\ Done(req[s])
         /\ TokenGood(req[s].token)
         /\ req[s].param \in Tenants
         /\ req[s].param # req[s].token.tenant)
            => /\ BaseRedirect(req[s].response, "invalid-tenant")
               /\ req[s].calls = NoCalls
               /\ req[s].cookie = NoCookie

\* C2 where NEXT_PUBLIC_APP_URL is set: the statement holds there.
C2_WhenBaseUrlSet == baseUrl # UNDEF => C2_MismatchRedirectsInvalidTenant

\* C3: a token that fails verification ends in a redirect to the base-URL
\* page with error=invalid-token whatever the tenant parameter is, without
\* reaching the tenant checks, the database or the cookie store.
C3_BadTokenRedirectsInvalidToken ==
    \A s \in Slots :
        (/\ Done(req[s])
         /\ req[s].token.raw = "jwt"
         /\ ~TokenGood(req[s].token))
            => /\ BaseRedirect(req[s].response, "invalid-token")
               /\ req[s].calls = NoCalls
               /\ req[s].cookie = NoCookie

\* C3 where NEXT_PUBLIC_APP_URL is set: the statement holds there.
C3_WhenBaseUrlSet == baseUrl # UNDEF => C3_BadTokenRedirectsInvalidToken

\* C4: every verification request ends with a redirect response and never
\* with an exception, in every configuration; every failure carries an error
\* code.
C4_AlwaysRedirects ==
    \A s \in Slots :
        Done(req[s])
            => /\ req[s].response.kind = "redirect"
               /\ req[s].cookie = NoCookie => req[s].response.error # "none"

\* C4 where NEXT_PUBLIC_APP_URL is set: the statement holds there.
C4_WhenBaseUrlSet == baseUrl # UNDEF => C4_AlwaysRedirects

\* One of the three GOOGLE_SHEETS_* variables is not set.
EnvUnset == \E n \in EnvNames : env[n] = UNDEF

\* C5: with a required environment variable unset, POST answers 500 and has
\* called neither spreadsheets.get nor values.append.
C5_UnsetEnvIs500BeforeAnyCall ==
    EnvUnset
        => /\ post.gets = 0
           /\ post.appends = 0
           /\ sheet = <<>>
           /\ post.pc = "done" => post.response.status = 500

C5_Witness ==
    /\ EnvUnset
    /\ env["GOOGLE_SHEETS_ID"] = "set"
    /\ post.pc = "done"
    /\ post.response = InternalError(ConfigError)

\* Records of the run's own making carry a creation time after 0.
PreExisting(coll, email) == \E i \in Matching(coll, email) : coll[i].createdAt = 0

\* C6: non-overlapping successful verifications of one e-mail in one tenant
\* whose collection held no record for it: the store holds exactly one
\* record for the e-mail after every request; the request that found none
\* created exactly that one, every later one created none and set
\* lastLoginAt on it.
C6_OneRecordPerEmail ==
    \A s \in Slots :
        LET r == req[s]
            coll == users[r.token.tenant]
            mine == Matching(coll, r.token.email)
        IN (Succeeded(r) /\ ~PreExisting(coll, r.token.email))
            => /\ Cardinality(mine) = 1
               /\ \A i \in mine :
                    /\ coll[i].lastLoginAt = now
                    /\ coll[i].createdAt = now => r.calls.create = 1
                    /\ coll[i].createdAt < now => r.calls.create = 0

\* A later verification: the record is older than the request, which
\* created nothing and refreshed lastLoginAt.
C6_Witness ==
    \E s \in Slots :
        LET r == req[s]
            coll == users[r.token.tenant]
        IN /\ Succeeded(r)
           /\ ~PreExisting(coll, r.token.email)
           /\ r.calls.create = 0
           /\ \E i \in Matching(coll, r.token.email) :
                coll[i].createdAt \in 1..(now - 1) /\ coll[i].lastLoginAt = now

\* The error a 500 response reports: its "type" and "error" fields.
ErrorOf(response) == [name |-> response.type, message |-> response.error]

\* C7: a failed spreadsheets.get gives 403 with no append and no second
\* get; any other failure gives one 500 with the error's message and name,
\* no row written and no call repeated.
C7_AccessErrorIs403OthersAre500 ==
    /\ post.gets <= 1
    /\ post.appends <= 1
    /\ post.pc = "done" =>
        /\ post.response.status \in {200, 403, 500}
        /\ post.response.status = 403 <=> (post.gets = 1 /\ post.appends = 0)
        /\ post.response.status = 403 => Len(sheet) = post.rows0
        /\ post.response.status = 500 =>
            /\ Len(sheet) = post.rows0
            /\ post.response.message = "Internal server error"
            /\ IF post.appends = 1 THEN ErrorOf(post.response) \in AppendErrors
               ELSE post.gets = 0 /\ ErrorOf(post.response) \in {ConfigError, JsonError}

C7_Witness ==
    /\ post.pc = "done"
    /\ post.response.status = 403
    /\ post.gets = 1
    /\ posts = 2

DigitValue(c) == CHOOSE n \in 0..9 : Digit(n) = c
IsDigit(c) == \E n \in 0..9 : Digit(n) = c

\* The text is DD/MM/YYYY for this day, month (from 1) and year.
IsDDMMYYYY(text, day, month, year) ==
    /\ Len(text) = 10
    /\ text[3] = "/" /\ text[6] = "/"
    /\ \A i \in {1, 2, 4, 5, 7, 8, 9, 10} : IsDigit(text[i])
    /\ 10 * DigitValue(text[1]) + DigitValue(text[2]) = day
    /\ 10 * DigitValue(text[4]) + DigitValue(text[5]) = month
    /\ 1000 * DigitValue(text[7]) + 100 * DigitValue(text[8])
         + 10 * DigitValue(text[9]) + DigitValue(text[10]) = year

\* C8: POST answers 200 {message: "Success"} only after exactly one
\* successful values.append, whose row is [name, email, phone, plan, date]
\* of the request body, the date being the current day as DD/MM/YYYY.
C8_SuccessAppendsTheLeadRow ==
    (post.pc = "done" /\ post.response.status = 200) =>
        /\ post.response = Success
        /\ post.gets = 1
        /\ post.appends = 1
        /\ Len(sheet) = post.rows0 + 1
        /\ LET row == sheet[Len(sheet)]
           IN /\ Len(row) = 5
              /\ row[1] = post.body.name
              /\ row[2] = post.body.email
              /\ row[3] = post.body.phone
              /\ row[4] = post.body.plan
              /\ IsDDMMYYYY(row[5], post.date.date, post.date.month + 1,
                            post.date.fullYear)

\* A January lead: day and month are both padded.
C8_Witness ==
    /\ post.pc = "done"
    /\ post.response.status = 200
    /\ post.date.month = 0
    /\ sheet[Len(sheet)][5] = <<"0", "1", "/", "0", "1", "/", "2", "0", "2", "6">>

\* The request found no user and has saved the document it made.
Created(r) == r.pc \in {"login", "session"} /\ r.calls.create = 1

\* C9: nothing guards two verifications of one new e-mail in one tenant:
\* when both found no user, each inserts a record of its own, and the
\* collection holds two records for the e-mail.
C9_CreateIsUnguarded ==
    \A s1, s2 \in Slots :
        (/\ s1 # s2
         /\ Created(req[s1]) /\ Created(req[s2])
         /\ req[s1].token.email = req[s2].token.email
         /\ req[s1].tenant = req[s2].tenant)
            => /\ req[s1].user.id # req[s2].user.id
               /\ CountFor(users[req[s1].tenant], req[s1].token.email) >= 2

\* The double create: both requests found no user before either saved, both
\* created, both succeeded, and the collection ends with two records.
C9_Witness ==
    /\ Succeeded(req[1]) /\ Succeeded(req[2])
    /\ req[1].calls.create = 1 /\ req[2].calls.create = 1
    /\ req[1].token = req[2].token
    /\ CountFor(users[req[1].token.tenant], req[1].token.email) = 2

\* C10: on every successful verification the session token's tenantPath is
\* the verified tenant, which is the token's tenant and the tenant of the
\* success redirect, whatever the user record held before.
C10_SessionTenantIsVerifiedTenant ==
    \A s \in Slots :
        Succeeded(req[s])
            => /\ req[s].cookie.tenantPath = req[s].token.tenant
               /\ req[s].cookie.tenantPath = req[s].response.tenant

\* C10 for users this handler created or completed: the statement holds there.
C10_WhenNoForeignTenantPath ==
    (\A t \in Tenants : \A i \in 1..Len(users[t]) : users[t][i].tenantPath \in {t, UNDEF})
        => C10_SessionTenantIsVerifiedTenant

====
